---- MODULE Spec2Model ----
(***************************************************************************)
(* Model of the flux gateway's route event loop and route handler          *)
(* (server/server.go): registry events arrive on a bounded channel, the    *)
(* event loop applies them to the routing table (endpointMvMap) and        *)
(* registers HTTP handlers; a request served by a registered handler       *)
(* resolves its endpoint by version with a fallback to the default         *)
(* version.  Strings that the code transforms (HTTP methods, patterns,     *)
(* route keys) are sequences of one-character strings.                     *)
(* Further parts: the concurrent route handlers over the context pool with *)
(* the error handler and FluxServer.Shutdown (SpecServe), the permission   *)
(* filters (SpecFilter), the reference cache of the Dubbo exchange         *)
(* (SpecDubbo), FluxServer.Start with the registry's listeners, consumer   *)
(* and Shutdown (SpecRegistry, SpecRegistryLive), the recycling of one     *)
(* context instance (SpecRecycle) and the /debug/endpoints dump next to    *)
(* the event loop (SpecDebug).                                             *)
(***************************************************************************)
EXTENDS Integers, Sequences, FiniteSets, TLC

\* ------------------------------------------------------------------ bounds
\* Number of events the registry publishes in one behaviour.
MaxEvents == 3

\* Number of requests routed to handlers in one behaviour.
NumRequests == 2

\* Number of goroutines calling exchange.Invoke concurrently.
NumInvokers == 2

\* --------------------------------------------------------------- constants
\* eventCh := make(chan flux.EndpointEvent, 2)
EventChCap == 2

defaultHttpVersionValue == "v1"

StatusNotFound == 404
StatusBadRequest == 400
StatusOK == 200
StatusBadGateway == 502
StatusServerError == 500

\* ----------------------------------------------------------------- strings
GET == <<"G", "E", "T">>
POST == <<"P", "O", "S", "T">>
DELETE == <<"D", "E", "L", "E", "T", "E">>
PUT == <<"P", "U", "T">>
HEAD == <<"H", "E", "A", "D">>
OPTIONS == <<"O", "P", "T", "I", "O", "N", "S">>
PATCH == <<"P", "A", "T", "C", "H">>
TRACE == <<"T", "R", "A", "C", "E">>
CONNECT == <<"C", "O", "N", "N", "E", "C", "T">>
LowerGet == <<"g", "e", "t">>

\* HTTP methods the registry may put in an event.
Methods == {GET, LowerGet, CONNECT}

\* Registry patterns ("/{i}"); the router pattern of it is "/:i".
Patterns == {<<"/", "{", "i", "}">>}

\* Versions an endpoint may carry; "" is the empty version string.
Versions == {"", "v1"}

\* Values of the X-Version request header ("" when the header is absent).
HeaderVersions == {"", "v1", "v2"}

EventTypes == {"Added", "Updated", "Removed"}

\* The rest of an endpoint record (upstream, arguments, ...), as one value.
Payloads == {"p1", "p2"}

\* strings.ToUpper, letter by letter
ToUpperChar(c) ==
    CASE c = "g" -> "G"
      [] c = "e" -> "E"
      [] c = "t" -> "T"
      [] c = "c" -> "C"
      [] c = "o" -> "O"
      [] c = "n" -> "N"
      [] c = "d" -> "D"
      [] c = "u" -> "U"
      [] c = "b" -> "B"
      [] c = "h" -> "H"
      [] c = "p" -> "P"
      [] OTHER -> c

ToUpper(s) == [i \in 1..Len(s) |-> ToUpperChar(s[i])]

\* strings.Replace(s, old, new, -1) for a one-character old and a new of
\* length 0 or 1 (given as a sequence).
RECURSIVE ReplaceAll(_, _, _)
ReplaceAll(s, old, new) ==
    IF s = <<>> THEN <<>>
    ELSE (IF Head(s) = old THEN new ELSE <<Head(s)>>) \o ReplaceAll(Tail(s), old, new)

\* /api/{userId} -> /api/:userId
toHttpServerPattern(uri) ==
    LET replaced == ReplaceAll(uri, "}", <<>>)
    IN  IF Len(replaced) < Len(uri) THEN ReplaceAll(replaced, "{", <<":">>) ELSE uri

\* fmt.Sprintf("%s#%s", event.HttpMethod, pattern)
RouteKey(method, pattern) == method \o <<"#">> \o pattern

\* The methods the event loop lets through.
AllowedMethods == {GET, POST, DELETE, PUT, HEAD, OPTIONS, PATCH, TRACE}

\* ------------------------------------------------------------------ events
Endpoints == [HttpMethod : Methods, Version : Versions, payload : Payloads]

\* A registry event {type, endpoint}: HttpMethod and HttpPattern of the event
\* are those of the endpoint record it carries.
Events ==
    { [Type |-> t, HttpMethod |-> ep.HttpMethod, HttpPattern |-> p, Endpoint |-> ep] :
        t \in EventTypes, p \in Patterns, ep \in Endpoints }

NilEndpoint == [HttpMethod |-> <<>>, Version |-> "", payload |-> ""]

\* ------------------------------------------------- MultiVersionEndpoint
\* version -> endpoint; every operation runs under the entry's lock.
NewMultiVersionEndpoint == [v \in {} |-> NilEndpoint]

MveGet(mve, version) ==
    IF version \in DOMAIN mve
    THEN [endpoint |-> mve[version], found |-> TRUE]
    ELSE [endpoint |-> NilEndpoint, found |-> FALSE]

MveUpdate(mve, version, endpoint) ==
    [v \in (DOMAIN mve) \cup {version} |-> IF v = version THEN endpoint ELSE mve[v]]

MveDelete(mve, version) ==
    [v \in (DOMAIN mve) \ {version} |-> mve[v]]

\* ------------------------------------------------------------------- state
VARIABLES
    endpointMvMap,  \* fs.endpointMvMap: route key -> MultiVersionEndpoint
    httpRoutes,     \* routes of fs.httpServer: <<method, pattern>> -> [mve, adds]
    eventCh,        \* the event channel (FIFO, capacity EventChCap)
    nsent,          \* number of events published so far
    expect,         \* history: <<route key, version>> -> what the last accepted event
                    \* published for the slot leaves in it (NilEndpoint: nothing)
    replayed,       \* history: an accepted Added event was published twice in a row
    revived,        \* history: route keys re-populated by Added after being emptied
    req             \* the request being served by a route handler, with the
                    \* handler's locals of its current stage; its fields snap (the
                    \* entry at the first lookup), stored and removed (what events
                    \* did to the entry between the two lookups), fell (the result
                    \* is the second lookup's) and fresh (the result was stored
                    \* between the two lookups and replaced another) are history

VARIABLES
    contextPool,    \* fs.contextPool: the context instances lying in the pool
    contexts,       \* the context instances created so far: id -> fields
    handler,        \* the route handler goroutine of each request: its position,
                    \* its locals and the response written for the request
    shut            \* the FluxServer.Shutdown call: its position and what it did

VARIABLES
    filterCall,     \* the last call of a permission filter: its inputs and outcome
    referenceMap,   \* ex.referenceMap of the Dubbo exchange: interface -> reference
    referenceMu,    \* ex.referenceMu: the invoker holding the lock (0: free)
    invoker,        \* the concurrent exchange.Invoke calls: position and locals
    constructed,    \* history: interface -> the references constructed for it
    returned        \* history: interface -> the references lookups returned for it

VARIABLES
    dump,           \* the /debug/endpoints handler: its position in the iteration
                    \* over fs.endpointMvMap, and whether the map was written
                    \* while it iterated (history)
    start,          \* the FluxServer.Start call: its position and what it did
    endpointEvents, \* r.endpointEvents of the registry: buffer and closed flag
    listener,       \* the listener invocation of each retriever: position, event
    retrievers,     \* r.retrievers: retriever -> watching / shut down
    regShut,        \* the DefaultRegistry.Shutdown call: position and what it did
    nodeEvents,     \* history of the node events and of the channel's traffic
    recycle         \* one context instance driven through reattach, use, release

filterVars == <<filterCall>>

debugVars == <<dump>>

registryVars == <<start, endpointEvents, listener, retrievers, regShut, nodeEvents>>

recycleVars == <<recycle>>

dubboVars == <<referenceMap, referenceMu, invoker, constructed, returned>>

serverVars == <<endpointMvMap, httpRoutes, eventCh, nsent, expect, replayed, revived, req>>

poolVars == <<contextPool, contexts, handler, shut>>

vars == <<endpointMvMap, httpRoutes, eventCh, nsent, expect, replayed, revived, req,
          contextPool, contexts, handler, shut,
          filterCall, referenceMap, referenceMu, invoker, constructed, returned,
          dump, start, endpointEvents, listener, retrievers, regShut, nodeEvents,
          recycle>>

IdleReq ==
    [pc |-> "idle", route |-> <<>>, version |-> "",
     endpoint |-> NilEndpoint, found |-> FALSE, fell |-> FALSE, fresh |-> FALSE,
     snap |-> NewMultiVersionEndpoint, stored |-> {}, removed |-> FALSE,
     status |-> 0, message |-> "", parsed |-> FALSE, dispatched |-> FALSE]

\* The requests of one behaviour; request r has the request id r.
Requests == 1 .. NumRequests

\* The request id of a context bound to no request ("" in the code).
NoRequestId == 0

\* requestReader.reset() and responseWriter.reset(): the reader bound to no
\* request, the writer with no status, headers or body.
ReaderReset == NoRequestId

WriterReset == [headers |-> {}, status |-> 0, body |-> {}]

\* A context as sync.Pool's New makes it.  What a request puts into a field
\* is marked with the id of the request; reader is the request the request
\* reader is attached to, headers, status and body the state of the response
\* writer, ctxLogger the request that set the context logger.
NewContext ==
    [requestId |-> NoRequestId, endpoint |-> NoRequestId, attachments |-> {},
     values |-> {}, reader |-> ReaderReset, headers |-> WriterReset.headers,
     status |-> WriterReset.status, body |-> WriterReset.body,
     ctxLogger |-> NoRequestId]

\* No response has been written for the request.
NoResponse == [status |-> 0, message |-> "", requestId |-> NoRequestId, headers |-> {}]

\* A request that has not been routed to its handler yet.  newCtx is the
\* handler's local, routed the value set in the web context (0: none), err
\* the error the handler returns ("": nil), plain that this error is not a
\* *flux.InvokeError; panickedAt and puts are history, as are parseFailed
\* (the form parsing of the request failed), chain (the dispatcher ran the
\* filter chain and the exchanger) and writers (who wrote to the response).
NewHandler ==
    [pc |-> "new", found |-> FALSE, newCtx |-> 0, routed |-> 0,
     status |-> 0, err |-> "", plain |-> FALSE,
     panickedAt |-> "", escaped |-> FALSE,
     puts |-> 0, staleRead |-> FALSE, parseFailed |-> FALSE, chain |-> FALSE,
     writers |-> {}, resp |-> NoResponse]

\* The active registries (registry-active of the configuration): one
\* retriever each, in the order of r.retrievers.
Retrievers == 1 .. 2

\* FluxServer.Start has not been called.
NotStarted ==
    [pc |-> "init", dispatcherUp |-> FALSE, watched |-> FALSE, loop |-> FALSE,
     http |-> FALSE, err |-> FALSE]

\* A listener that is not running; event is the decoded event it is about to
\* send (0: none), failed tells whether an invocation of it published nothing.
IdleListener == [pc |-> "idle", event |-> 0, failed |-> FALSE]

\* No node event has fired: count numbers the node events, decoded holds the
\* events the listeners decoded, published lists those sent on the channel,
\* delivered those the consumer received; closedSend tells whether a
\* listener sent on the closed channel.
NoNodeEvents ==
    [count |-> 0, decoded |-> {}, published |-> <<>>, delivered |-> <<>>,
     closedSend |-> FALSE]

\* make(chan flux.HttpEndpointEvent, 4)
EndpointEventsCap == 4

\* The keys of the value cache that a request fills.
ValueKeys == {"x", "y", "z"}

\* A new context instance lying in the pool: round counts its Reattach calls;
\* soiled tells whether the use of the last round wrote every field (history).
NoRecycle == [pc |-> "pooled", ctx |-> NewContext, round |-> 0, soiled |-> FALSE]

\* No permission filter has been called yet.
NoCall == [filter |-> "", in |-> <<>>, out |-> <<>>]

\* The interface names (endpoint.UpstreamUri) of the Dubbo services invoked.
Interfaces == {"a", "b"}

\* The goroutines calling exchange.Invoke concurrently.
Invokers == 1 .. NumInvokers

\* The number of requests one context instance serves in one behaviour.
MaxRounds == 2

\* The number of node events the retrievers deliver in one behaviour.
MaxNodeEvents == 5

\* An Invoke call that has not started; ref is the reference its lookup
\* returned (0: none yet).
IdleInvoker == [pc |-> "idle", interfaceName |-> "", ref |-> 0]

\* The routing table, the routes and the event channel after NewFluxServer,
\* Init and Start, with no request in its handler.
InitServer ==
    /\ endpointMvMap = [k \in {} |-> NewMultiVersionEndpoint]
    /\ httpRoutes = [r \in {} |-> [mve |-> <<>>, adds |-> 0]]
    /\ eventCh = <<>>
    /\ nsent = 0
    /\ expect = [s \in {} |-> NilEndpoint]
    /\ replayed = FALSE
    /\ revived = {}
    /\ req = IdleReq

\* The empty context pool and a server that is running, with the given
\* requests on their way to the route handlers.
InitPool(requests) ==
    /\ contextPool = {}
    /\ contexts = [c \in {} |-> NewContext]
    /\ handler = [r \in requests |-> NewHandler]
    /\ shut = [pc |-> "running", httpDown |-> FALSE, dispatcherDown |-> FALSE,
               failed |-> FALSE]

\* No call of a permission filter is running.
InitFilter == filterCall = NoCall

\* The empty reference cache of NewDubboExchange, with the given goroutines
\* about to call Invoke for the given interfaces.
InitDubbo(invokers, interfaces) ==
    /\ referenceMap = [i \in {} |-> 0]
    /\ referenceMu = 0
    /\ invoker = [p \in invokers |-> IdleInvoker]
    /\ constructed = [i \in interfaces |-> {}]
    /\ returned = [i \in interfaces |-> {}]

\* No /debug/endpoints request is being served.
IdleDump == [pc |-> "idle", raced |-> FALSE]

InitDebug == dump = IdleDump

\* FluxServer.Start has not been called; the registry of NewDefaultRegistryFactoryWith
\* with the given retrievers, none of them watching yet.
InitRegistry(active) ==
    /\ start = NotStarted
    /\ endpointEvents = [buf |-> <<>>, closed |-> FALSE]
    /\ listener = [l \in active |-> IdleListener]
    /\ retrievers = [l \in active |-> "created"]
    /\ regShut = [pc |-> "idle", called |-> {}, err |-> FALSE]
    /\ nodeEvents = NoNodeEvents

\* No context instance is being recycled.
InitRecycle == recycle = NoRecycle

\* The value of the variables of a part of the gateway that a specification
\* leaves out.
Absent == <<>>

WithoutServer ==
    /\ endpointMvMap = Absent
    /\ httpRoutes = Absent
    /\ eventCh = Absent
    /\ nsent = Absent
    /\ expect = Absent
    /\ replayed = Absent
    /\ revived = Absent
    /\ req = Absent

WithoutPool ==
    /\ contextPool = Absent
    /\ contexts = Absent
    /\ handler = Absent
    /\ shut = Absent

WithoutFilter == filterCall = Absent

WithoutDubbo ==
    /\ referenceMap = Absent
    /\ referenceMu = Absent
    /\ invoker = Absent
    /\ constructed = Absent
    /\ returned = Absent

WithoutRegistry ==
    /\ start = Absent
    /\ endpointEvents = Absent
    /\ listener = Absent
    /\ retrievers = Absent
    /\ regShut = Absent
    /\ nodeEvents = Absent

WithoutRecycle == recycle = Absent

\* The event loop and the route handler of one request (with the debug
\* dump), with no pooled handler, filter call or exchange call around.
Init ==
    /\ InitServer
    /\ InitDebug
    /\ WithoutPool
    /\ WithoutFilter
    /\ WithoutDubbo
    /\ WithoutRegistry
    /\ WithoutRecycle

\* The concurrent route handlers over the context pool.
InitServe ==
    /\ InitPool(Requests)
    /\ InitDebug
    /\ WithoutServer
    /\ WithoutFilter
    /\ WithoutDubbo
    /\ WithoutRegistry
    /\ WithoutRecycle

\* The calls of the permission filters.
InitCalls ==
    /\ InitFilter
    /\ InitDebug
    /\ WithoutServer
    /\ WithoutPool
    /\ WithoutDubbo
    /\ WithoutRegistry
    /\ WithoutRecycle

\* The concurrent calls of the Dubbo exchange.
InitExchange ==
    /\ InitDubbo(Invokers, Interfaces)
    /\ InitDebug
    /\ WithoutServer
    /\ WithoutPool
    /\ WithoutFilter
    /\ WithoutRegistry
    /\ WithoutRecycle

\* The registry with its retrievers, before FluxServer.Start.
InitStart ==
    /\ InitRegistry(Retrievers)
    /\ InitDebug
    /\ WithoutServer
    /\ WithoutPool
    /\ WithoutFilter
    /\ WithoutDubbo
    /\ WithoutRecycle

\* One new context instance in the pool.
InitContext ==
    /\ InitRecycle
    /\ InitDebug
    /\ WithoutServer
    /\ WithoutPool
    /\ WithoutFilter
    /\ WithoutDubbo
    /\ WithoutRegistry

\* ---------------------------------------------------------- the event loop
\* The route key the loop computes for an event (server.go:132-133).
\* The values the loop body computes from the event alone, for every event:
\* pattern := fs.toHttpServerPattern(event.HttpPattern), routeKey :=
\* fmt.Sprintf("%s#%s", event.HttpMethod, pattern), and eEndpoint, the event's
\* endpoint with its HttpMethod upper-cased.
EventLocals ==
    [event \in Events |->
        [pattern   |-> toHttpServerPattern(event.HttpPattern),
         routeKey  |-> RouteKey(event.HttpMethod, toHttpServerPattern(event.HttpPattern)),
         eEndpoint |-> [event.Endpoint EXCEPT
                           !.HttpMethod = ToUpper(event.Endpoint.HttpMethod)],
         allowed   |-> ToUpper(event.Endpoint.HttpMethod) \in AllowedMethods]]

EventRouteKey(event) == EventLocals[event].routeKey

\* event.Endpoint.HttpMethod = strings.ToUpper(event.Endpoint.HttpMethod)
NormalizedEndpoint(event) == EventLocals[event].eEndpoint

\* The switch on eEndpoint.HttpMethod (server.go:138-146).
MethodAllowed(event) == EventLocals[event].allowed

\* fs.getVersionEndpoint(routeKey): the table after the call and isNew.
getVersionEndpointNeverFinds(mvMap, routeKey) ==
    [mvMap |-> [k \in (DOMAIN mvMap) \cup {routeKey} |->
                  IF k = routeKey THEN NewMultiVersionEndpoint ELSE mvMap[k]],
     isNew |-> TRUE]

getVersionEndpoint(mvMap, routeKey) ==
    IF routeKey \in DOMAIN mvMap
    THEN [mvMap |-> mvMap, isNew |-> FALSE]
    ELSE [mvMap |-> [k \in (DOMAIN mvMap) \cup {routeKey} |->
                        IF k = routeKey THEN NewMultiVersionEndpoint ELSE mvMap[k]],
          isNew |-> TRUE]

\* fs.httpServer.Add(method, pattern, fs.generateRouter(vEndpoint))
httpServerAdd(routes, method, pattern, routeKey) ==
    LET r == <<method, pattern>>
        n == IF r \in DOMAIN routes THEN routes[r].adds ELSE 0
    IN  [x \in (DOMAIN routes) \cup {r} |->
            IF x = r THEN [mve |-> routeKey, adds |-> n + 1] ELSE routes[x]]

\* Whether the Added case registers the handler (server.go:151); vEndpoint is
\* the entry as getVersionEndpoint returned it.
RegisterOnAddedAlways(isNew, vEndpoint) == TRUE

RegisterOnAddedWhenEmpty(isNew, vEndpoint) == isNew \/ DOMAIN vEndpoint = {}

RegisterOnAdded(isNew, vEndpoint) == isNew

\* vEndpoint.Update(eEndpoint.Version, &eEndpoint) of the Added case
AddedSlots(vEndpoint, eEndpoint) == MveUpdate(vEndpoint, eEndpoint.Version, eEndpoint)

\* vEndpoint.Update(eEndpoint.Version, &eEndpoint) of the Updated case
UpdatedSlotsReplacingAll(vEndpoint, eEndpoint) ==
    MveUpdate(NewMultiVersionEndpoint, eEndpoint.Version, eEndpoint)

UpdatedSlots(vEndpoint, eEndpoint) == MveUpdate(vEndpoint, eEndpoint.Version, eEndpoint)

\* vEndpoint.Delete(eEndpoint.Version)
RemovedSlots(vEndpoint, eEndpoint) == MveDelete(vEndpoint, eEndpoint.Version)

\* One iteration of the loop body of handleHttpRouteEvent on the routing
\* table st = [mvMap, routes].
ApplyEvent(st, event) ==
    LET pattern   == EventLocals[event].pattern
        routeKey  == EventRouteKey(event)
        got       == getVersionEndpoint(st.mvMap, routeKey)
        eEndpoint == NormalizedEndpoint(event)
        vEndpoint == got.mvMap[routeKey]
    IN  IF ~MethodAllowed(event)
        THEN [mvMap |-> got.mvMap, routes |-> st.routes]
        ELSE CASE event.Type = "Added" ->
                    [mvMap  |-> [got.mvMap EXCEPT ![routeKey] = AddedSlots(vEndpoint, eEndpoint)],
                     routes |-> IF RegisterOnAdded(got.isNew, vEndpoint)
                                THEN httpServerAdd(st.routes, event.HttpMethod, pattern, routeKey)
                                ELSE st.routes]
               [] event.Type = "Updated" ->
                    [mvMap  |-> [got.mvMap EXCEPT ![routeKey] = UpdatedSlots(vEndpoint, eEndpoint)],
                     routes |-> st.routes]
               [] event.Type = "Removed" ->
                    [mvMap  |-> [got.mvMap EXCEPT ![routeKey] = RemovedSlots(vEndpoint, eEndpoint)],
                     routes |-> st.routes]

\* The routing table as one value.
Table == [mvMap |-> endpointMvMap, routes |-> httpRoutes]

\* "for event := range events": the loop receives the oldest event.
ChanReceiveNewest(ch) == [event |-> ch[Len(ch)], rest |-> SubSeq(ch, 1, Len(ch) - 1)]

ChanReceive(ch) == [event |-> Head(ch), rest |-> Tail(ch)]

\* The slot <<route key, version>> an event is about.
EventSlot(event) == <<EventRouteKey(event), event.Endpoint.Version>>

\* The registry publishes an event; a full channel blocks the sender.
Publish ==
    /\ nsent < MaxEvents
    /\ Len(eventCh) < EventChCap
    /\ \E e \in Events :
         /\ eventCh' = Append(eventCh, e)
         /\ expect' = IF ~MethodAllowed(e) THEN expect
                       ELSE [s \in (DOMAIN expect) \cup {EventSlot(e)} |->
                               IF s # EventSlot(e) THEN expect[s]
                               ELSE IF e.Type = "Removed" THEN NilEndpoint
                               ELSE NormalizedEndpoint(e)]
         /\ replayed' = (replayed \/ (/\ e.Type = "Added"
                                      /\ MethodAllowed(e)
                                      /\ eventCh # <<>>
                                      /\ eventCh[Len(eventCh)] = e))
    /\ nsent' = nsent + 1
    /\ UNCHANGED <<endpointMvMap, httpRoutes, revived, req>>
    /\ UNCHANGED poolVars
    /\ UNCHANGED <<filterVars, dubboVars, debugVars, registryVars, recycleVars>>

\* The route key of the MultiVersionEndpoint the request's handler holds.
ReqKey == httpRoutes[req.route].mve

handleHttpRouteEvent ==
    /\ eventCh # <<>>
    /\ LET rcv == ChanReceive(eventCh)
           ev  == rcv.event
           key == EventRouteKey(ev)
           st  == ApplyEvent(Table, ev)
           hit == /\ req.pc = "fallback"
                  /\ ReqKey = key
                  /\ MethodAllowed(ev)
       IN  /\ eventCh' = rcv.rest
           /\ endpointMvMap' = st.mvMap
           /\ httpRoutes' = st.routes
           /\ revived' = IF /\ ev.Type = "Added"
                            /\ MethodAllowed(ev)
                            /\ key \in DOMAIN endpointMvMap
                            /\ DOMAIN endpointMvMap[key] = {}
                            /\ \E r \in DOMAIN httpRoutes : httpRoutes[r].mve = key
                         THEN revived \cup {key} ELSE revived
           /\ req' = IF ~hit THEN req
                     ELSE IF ev.Type = "Removed" THEN [req EXCEPT !.removed = TRUE]
                     ELSE [req EXCEPT !.stored = @ \cup {NormalizedEndpoint(ev)}]
           /\ dump' = IF dump.pc = "iterating" /\ DOMAIN st.mvMap # DOMAIN endpointMvMap
                      THEN [dump EXCEPT !.raced = TRUE]
                      ELSE dump
    /\ UNCHANGED <<nsent, expect, replayed>>
    /\ UNCHANGED poolVars
    /\ UNCHANGED <<filterVars, dubboVars, registryVars, recycleVars>>

\* ------------------------------------------------------- the route handler
\* A request is routed to a registered handler; the handler reads the
\* version header and looks the version up (server.go:185-186).
ReqLookup ==
    /\ req.pc = "idle"
    /\ \E r \in DOMAIN httpRoutes, h \in HeaderVersions :
         LET mve == endpointMvMap[httpRoutes[r].mve]
             got == MveGet(mve, h)
         IN  req' = IF got.found
                    THEN [IdleReq EXCEPT !.pc = "serve", !.route = r,
                                         !.endpoint = got.endpoint, !.found = TRUE]
                    ELSE [IdleReq EXCEPT !.pc = "fallback", !.route = r,
                                         !.version = h, !.snap = mve]
    /\ UNCHANGED <<endpointMvMap, httpRoutes, eventCh, nsent, expect, replayed, revived>>
    /\ UNCHANGED poolVars
    /\ UNCHANGED <<filterVars, dubboVars, debugVars, registryVars, recycleVars>>

\* The version the second lookup asks for (server.go:188).
FallbackVersionEmpty == ""

FallbackVersion == defaultHttpVersionValue

\* if !found { version = "v1"; endpoint, found = mvEndpoint.Get(version) }
ReqFallback ==
    /\ req.pc = "fallback"
    /\ LET got == MveGet(endpointMvMap[ReqKey], FallbackVersion)
       IN  req' = [IdleReq EXCEPT
                      !.pc = "serve", !.route = req.route,
                      !.endpoint = got.endpoint, !.found = got.found,
                      !.fell = TRUE,
                      !.fresh = /\ got.found
                                /\ ~req.removed
                                /\ got.endpoint \in req.stored
                                /\ FallbackVersion \in DOMAIN req.snap
                                /\ got.endpoint # req.snap[FallbackVersion]]
    /\ UNCHANGED <<endpointMvMap, httpRoutes, eventCh, nsent, expect, replayed, revived>>
    /\ UNCHANGED poolVars
    /\ UNCHANGED <<filterVars, dubboVars, debugVars, registryVars, recycleVars>>

\* The rest of the handler (server.go:191-210) and the response written for
\* its result: found, the form-parsing result and the dispatch result decide.
ServeOutcomeParsingFirst(found, parseOk, dispatchOk) ==
    IF ~parseOk
    THEN [status |-> StatusBadRequest, message |-> "REQUEST:FORM_PARSING",
          parsed |-> TRUE, dispatched |-> FALSE]
    ELSE IF ~found
    THEN [status |-> StatusNotFound, message |-> "ENDPOINT_VERSION_NOT_FOUND",
          parsed |-> TRUE, dispatched |-> FALSE]
    ELSE IF ~dispatchOk
    THEN [status |-> StatusBadGateway, message |-> "DUBBO_RPC:INVOKE",
          parsed |-> TRUE, dispatched |-> TRUE]
    ELSE [status |-> StatusOK, message |-> "",
          parsed |-> TRUE, dispatched |-> TRUE]

ServeOutcome(found, parseOk, dispatchOk) ==
    IF ~found
    THEN [status |-> StatusNotFound, message |-> "ENDPOINT_VERSION_NOT_FOUND",
          parsed |-> FALSE, dispatched |-> FALSE]
    ELSE IF ~parseOk
    THEN [status |-> StatusBadRequest, message |-> "REQUEST:FORM_PARSING",
          parsed |-> TRUE, dispatched |-> FALSE]
    ELSE IF ~dispatchOk
    THEN [status |-> StatusBadGateway, message |-> "DUBBO_RPC:INVOKE",
          parsed |-> TRUE, dispatched |-> TRUE]
    ELSE [status |-> StatusOK, message |-> "",
          parsed |-> TRUE, dispatched |-> TRUE]

ReqServe ==
    /\ req.pc = "serve"
    /\ \E parseOk \in BOOLEAN, dispatchOk \in BOOLEAN :
         LET out == ServeOutcome(req.found, parseOk, dispatchOk)
         IN  req' = [IdleReq EXCEPT !.pc = "done", !.found = req.found,
                                    !.status = out.status, !.message = out.message,
                                    !.parsed = out.parsed, !.dispatched = out.dispatched]
    /\ UNCHANGED <<endpointMvMap, httpRoutes, eventCh, nsent, expect, replayed, revived>>
    /\ UNCHANGED poolVars
    /\ UNCHANGED <<filterVars, dubboVars, debugVars, registryVars, recycleVars>>

\* The response is out; the next request may come.
ReqDone ==
    /\ req.pc = "done"
    /\ req' = IdleReq
    /\ UNCHANGED <<endpointMvMap, httpRoutes, eventCh, nsent, expect, replayed, revived>>
    /\ UNCHANGED poolVars
    /\ UNCHANGED <<filterVars, dubboVars, debugVars, registryVars, recycleVars>>

Next ==
    \/ Publish
    \/ handleHttpRouteEvent
    \/ ReqLookup
    \/ ReqFallback
    \/ ReqServe
    \/ ReqDone

Spec == Init /\ [][Next]_vars

\* The event loop with no request in flight.  The route handlers write none
\* of the routing table, the routes and the channel, so the loop goes through
\* the same tables with and without them.
NextEvents ==
    \/ Publish
    \/ handleHttpRouteEvent

SpecEvents == Init /\ [][NextEvents]_vars

TypeOK ==
    /\ Len(eventCh) <= EventChCap
    /\ nsent <= MaxEvents
    /\ req.pc \in {"idle", "fallback", "serve", "done"}

\* ------------------------------------------ the handlers and their contexts
\* Concurrent route handlers over the context pool, followed by the web
\* framework's call of the error handler, and FluxServer.Shutdown.  The
\* endpoint lookup (ReqLookup, ReqFallback above) is taken by its result.

\* The deferred recover() of the handler (server.go:178-182) is installed
\* before anything else runs: it recovers a panic of every stage.
RecoversAfterLookup(stage) == stage # "lookup"

Recovers(stage) == TRUE

\* fs.release is deferred (server.go:193): it runs on a panic as on a return.
ReleaseRunsUnlessPanicked(panicked) == ~panicked

ReleaseRuns(panicked) == TRUE

\* The handler h panics in the given stage; deferred tells whether the
\* release of its context has been deferred.  A recovered panic makes the
\* handler return nil (it has no named result); deferred calls run first.
PanicAt(h, stage, deferred) ==
    [h EXCEPT !.pc = IF deferred /\ ReleaseRuns(TRUE) THEN "release" ELSE "returned",
              !.panickedAt = stage,
              !.escaped = ~Recovers(stage),
              !.status = 0,
              !.err = ""]

\* sync.Pool.Get: an instance lying in the pool, or a new one (New); the
\* instance leaves the pool.
PoolGetKeeping(c) == contextPool

PoolGet(c) == contextPool \ {c}

NextContext == Cardinality(DOMAIN contexts) + 1

GetChoices == contextPool \cup {NextContext}

\* WrappedContext.Reattach: binds the context to the request; new attribute
\* and value maps, the attribute XRequestId set to the request id.
\* The response writer and the context logger are left as they are.
Reattach(ctx, requestId) ==
    [ctx EXCEPT !.requestId = requestId,
                !.endpoint = requestId,
                !.attachments = {requestId},
                !.values = {},
                !.reader = requestId]

\* The contexts after instance c went through Reattach for request r.
Reattached(c, r) ==
    [x \in (DOMAIN contexts) \cup {c} |->
        IF x # c THEN contexts[x]
        ELSE IF c \in DOMAIN contexts THEN Reattach(contexts[c], r)
        ELSE Reattach(NewContext, r)]

\* WrappedContext.Release: request id "", web context, endpoint and maps
\* dropped, reader and writer reset, context logger dropped.
ReleaseKeepingLogger(ctx) ==
    [ctx EXCEPT !.requestId = NoRequestId,
                !.endpoint = NoRequestId,
                !.attachments = {},
                !.values = {},
                !.reader = ReaderReset,
                !.headers = WriterReset.headers,
                !.status = WriterReset.status,
                !.body = WriterReset.body]

Release(ctx) ==
    [ctx EXCEPT !.requestId = NoRequestId,
                !.endpoint = NoRequestId,
                !.attachments = {},
                !.values = {},
                !.reader = ReaderReset,
                !.headers = WriterReset.headers,
                !.status = WriterReset.status,
                !.body = WriterReset.body,
                !.ctxLogger = NoRequestId]

\* The request is routed to its handler (which the server does until its
\* Shutdown is called), and the handler resolves the endpoint.
HandlerLookup(r) ==
    /\ handler[r].pc = "new"
    /\ shut.pc = "running"
    /\ \/ \E found \in BOOLEAN :
            handler' = [handler EXCEPT ![r] = [@ EXCEPT !.pc = "acquire", !.found = found]]
       \/ handler' = [handler EXCEPT ![r] = PanicAt(@, "lookup", FALSE)]
    /\ UNCHANGED <<contextPool, contexts, shut>>
    /\ UNCHANGED serverVars
    /\ UNCHANGED <<filterVars, dubboVars, debugVars, registryVars, recycleVars>>

\* The request matches no route of fs.httpServer: the web framework hands its
\* own not-found error, which is no *flux.InvokeError, to the error handler
\* installed by NewFluxServer (server.go:80).
RouteMiss(r) ==
    /\ handler[r].pc = "new"
    /\ shut.pc = "running"
    /\ handler' = [handler EXCEPT ![r] =
                      [@ EXCEPT !.pc = "returned", !.err = "Not Found",
                                !.status = StatusNotFound, !.plain = TRUE]]
    /\ UNCHANGED <<contextPool, contexts, shut>>
    /\ UNCHANGED serverVars
    /\ UNCHANGED <<filterVars, dubboVars, debugVars, registryVars, recycleVars>>

\* newCtx := fs.acquire(c, endpoint); c.Set(_echoKeyRoutedContext, newCtx);
\* defer fs.release(newCtx).  A panic inside acquire leaves the handler with
\* no context.
HandlerAcquire(r) ==
    /\ handler[r].pc = "acquire"
    /\ \E c \in GetChoices :
         /\ contextPool' = PoolGet(c)
         /\ contexts' = Reattached(c, r)
         /\ \/ handler' = [handler EXCEPT ![r] =
                              [@ EXCEPT !.pc = "body", !.newCtx = c, !.routed = c]]
            \/ handler' = [handler EXCEPT ![r] = PanicAt(@, "acquire", FALSE)]
    /\ UNCHANGED shut
    /\ UNCHANGED serverVars
    /\ UNCHANGED <<filterVars, dubboVars, debugVars, registryVars, recycleVars>>

\* fs.httpAdaptWriter.WriteResponse(newCtx) (server.go:209), by its results:
\* nil after the response was written, or a *flux.InvokeError returned before
\* anything was written (the body could not be serialized) or after the
\* status line and headers went out (the write of the body failed).
WriteResponse ==
    {[err |-> "", status |-> StatusOK, plain |-> FALSE, wrote |-> TRUE]}
    \cup {[err |-> "GATEWAY:RESPONSE", status |-> StatusServerError,
            plain |-> FALSE, wrote |-> w] : w \in BOOLEAN}

\* The rest of the handler's body (server.go:194-210): the not-found return,
\* form parsing, the dispatch through the filter chain (whose filters and
\* exchanger set attributes and response headers on the context) and the
\* response writing, or a panic in any of them.
HandlerBody(r) ==
    /\ handler[r].pc = "body"
    /\ LET c == handler[r].newCtx
       IN \/ \E parseOk \in BOOLEAN, dispatchOk \in BOOLEAN, w \in WriteResponse :
               LET out == ServeOutcome(handler[r].found, parseOk, dispatchOk)
                   ctx == IF out.dispatched
                          THEN [contexts[c] EXCEPT !.attachments = @ \cup {r},
                                                   !.headers = @ \cup {r}]
                          ELSE contexts[c]
                   written == out.status = StatusOK /\ w.wrote
                   failed == out.status = StatusOK /\ w.err # ""
               IN  /\ contexts' = [contexts EXCEPT ![c] = ctx]
                   /\ handler' = [handler EXCEPT ![r] =
                          [@ EXCEPT !.pc = "release",
                                    !.status = IF failed THEN w.status ELSE out.status,
                                    !.err = IF failed THEN w.err ELSE out.message,
                                    !.plain = failed /\ w.plain,
                                    !.parseFailed = handler[r].found /\ ~parseOk,
                                    !.chain = out.dispatched,
                                    !.writers = IF written THEN {"response"} ELSE {},
                                    !.resp = IF written
                                             THEN [status |-> StatusOK, message |-> "",
                                                   requestId |-> ctx.requestId,
                                                   headers |-> ctx.headers]
                                             ELSE NoResponse]]
          \/ /\ handler' = [handler EXCEPT ![r] = PanicAt(@, "body", TRUE)]
             /\ UNCHANGED contexts
    /\ UNCHANGED <<contextPool, shut>>
    /\ UNCHANGED serverVars
    /\ UNCHANGED <<filterVars, dubboVars, debugVars, registryVars, recycleVars>>

\* The deferred fs.release(newCtx): c.Release(); fs.contextPool.Put(c); then
\* the handler returns.
HandlerRelease(r) ==
    /\ handler[r].pc = "release"
    /\ LET c == handler[r].newCtx
       IN  /\ contexts' = [contexts EXCEPT ![c] = Release(@)]
           /\ contextPool' = contextPool \cup {c}
    /\ handler' = [handler EXCEPT ![r] = [@ EXCEPT !.pc = "returned", !.puts = @ + 1]]
    /\ UNCHANGED shut
    /\ UNCHANGED serverVars
    /\ UNCHANGED <<filterVars, dubboVars, debugVars, registryVars, recycleVars>>

\* The request id the error handler writes when the web context holds no
\* routed context ("$proxy").
ProxyRequestId == -1

\* FluxServer.httpErrorAdapting: the error response for the handler record h,
\* with the request id and the response headers read from the context stored
\* in the web context, as they are when the error handler runs.
httpErrorAdapting(h) ==
    LET iErr == IF h.plain
                THEN [status |-> StatusBadRequest, message |-> "REQUEST:FORM_PARSING"]
                ELSE [status |-> h.status, message |-> h.err]
    IN  IF h.routed # 0
        THEN [status |-> iErr.status, message |-> iErr.message,
              requestId |-> contexts[h.routed].requestId,
              headers |-> contexts[h.routed].headers]
        ELSE [status |-> iErr.status, message |-> iErr.message,
              requestId |-> ProxyRequestId, headers |-> {}]

\* The handler has returned to the web framework: a non-nil error goes to the
\* error handler; a nil return with nothing written ends as an empty 200.
HandlerReturned(r) ==
    /\ handler[r].pc = "returned"
    /\ LET h == handler[r]
       IN  handler' = [handler EXCEPT ![r] =
              IF h.escaped THEN [h EXCEPT !.pc = "done"]
              ELSE IF h.err # ""
              THEN [h EXCEPT !.pc = "done",
                             !.resp = httpErrorAdapting(h),
                             !.writers = @ \cup {"error"},
                             !.staleRead = (h.routed # 0 /\ h.puts > 0)]
              ELSE IF h.resp = NoResponse
              THEN [h EXCEPT !.pc = "done", !.resp = [NoResponse EXCEPT !.status = StatusOK]]
              ELSE [h EXCEPT !.pc = "done"]]
    /\ UNCHANGED <<contextPool, contexts, shut>>
    /\ UNCHANGED serverVars
    /\ UNCHANGED <<filterVars, dubboVars, debugVars, registryVars, recycleVars>>

\* A request is in flight: routed to its handler and not answered yet.
InFlight == \E r \in Requests : handler[r].pc \notin {"new", "done"}

\* FluxServer.Shutdown is called (run.go:44): fs.httpServer.Shutdown(ctx)
\* stops the routing of new requests.
ShutdownCall ==
    /\ shut.pc = "running"
    /\ shut' = [shut EXCEPT !.pc = "http"]
    /\ UNCHANGED <<contextPool, contexts, handler>>
    /\ UNCHANGED serverVars
    /\ UNCHANGED <<filterVars, dubboVars, debugVars, registryVars, recycleVars>>

\* What Shutdown does when fs.httpServer.Shutdown returned err (nil: FALSE):
\* if err != nil { return err }; return fs.dispatcher.Shutdown(ctx).
AfterHttpShutdown(failed) == IF failed THEN "returned" ELSE "dispatcher"

\* fs.httpServer.Shutdown(ctx) returns: nil once no request is in flight, the
\* context's error when the deadline passes with a request in flight.
HttpShutdown ==
    /\ shut.pc = "http"
    /\ shut' = [shut EXCEPT !.pc = AfterHttpShutdown(InFlight),
                            !.httpDown = TRUE,
                            !.failed = InFlight]
    /\ UNCHANGED <<contextPool, contexts, handler>>
    /\ UNCHANGED serverVars
    /\ UNCHANGED <<filterVars, dubboVars, debugVars, registryVars, recycleVars>>

\* fs.dispatcher.Shutdown(ctx), and Shutdown returns.
DispatcherShutdown ==
    /\ shut.pc = "dispatcher"
    /\ shut' = [shut EXCEPT !.pc = "returned", !.dispatcherDown = TRUE]
    /\ UNCHANGED <<contextPool, contexts, handler>>
    /\ UNCHANGED serverVars
    /\ UNCHANGED <<filterVars, dubboVars, debugVars, registryVars, recycleVars>>

NextServe ==
    \/ \E r \in Requests : HandlerLookup(r)
    \/ \E r \in Requests : RouteMiss(r)
    \/ \E r \in Requests : HandlerAcquire(r)
    \/ \E r \in Requests : HandlerBody(r)
    \/ \E r \in Requests : HandlerRelease(r)
    \/ \E r \in Requests : HandlerReturned(r)
    \/ ShutdownCall
    \/ HttpShutdown
    \/ DispatcherShutdown

SpecServe == InitServe /\ [][NextServe]_vars

TypeOKServe ==
    /\ contextPool \subseteq DOMAIN contexts
    /\ \A r \in Requests :
          handler[r].pc \in {"new", "acquire", "body", "release", "returned", "done"}
    /\ shut.pc \in {"running", "http", "dispatcher", "returned"}


\* ---------------------------------------------------- the permission filters
\* PermissionFilter.DoFilter (filter/permisstion.go) and
\* PermissionVerificationFilter.Invoke, as functions of what the request, the
\* endpoint, the verification and the rest of the chain (next) give them.
StatusUnauthorized == 401
StatusForbidden == 403
StatusAccessDenied == 403

ErrorCodePermissionDenied == "PERMISSION:ACCESS_DENIED"
ErrorCodeGatewayInternal == "GATEWAY:INTERNAL"
ErrorCodeRequestInvalid == "REQUEST:INVALID"

\* The error of the rest of the chain, when next returns one.
NextError == [StatusCode |-> StatusBadGateway, ErrorCode |-> "", Message |-> "NEXT"]

\* The StateError a VerifyFunc returns, when it returns one.
VerifyStateError == [StatusCode |-> StatusServerError, ErrorCode |-> "", Message |-> "VERIFY"]

NilError == [StatusCode |-> 0, ErrorCode |-> "", Message |-> ""]

NewPermissionVerifyReport(success, errorCode, message) ==
    [StatusCode |-> StatusUnauthorized, Success |-> success,
     ErrorCode |-> errorCode, Message |-> message]

\* The reports a VerifyFunc returns: built field by field (status code unset
\* or set) or with NewPermissionVerifyReport.
Reports ==
    [StatusCode : {0, StatusForbidden}, Success : BOOLEAN,
     ErrorCode : {"", ErrorCodePermissionDenied, "E"}, Message : {"", "M"}]
    \cup {NewPermissionVerifyReport(ok, code, msg) :
            ok \in BOOLEAN, code \in {"", ErrorCodePermissionDenied}, msg \in {"", "M"}}

EnsurePermissionStatusCode(status) == IF status < 100 THEN StatusForbidden ELSE status

EnsurePermissionErrorCode(code) == IF code = "" THEN ErrorCodePermissionDenied ELSE code

EnsurePermissionMessage(message) == IF message = "" THEN ErrorCodePermissionDenied ELSE message

\* The filter hands the request to the rest of the chain and returns what it
\* returns: return next(ctx).
ReturnNext(nextErr) ==
    [nextCalls |-> 1, own |-> FALSE, verified |-> FALSE,
     err |-> IF nextErr THEN NextError ELSE NilError]

\* The filter returns an error without calling next.
ReturnErrorAfterNext(e, verified) ==
    [nextCalls |-> 1, own |-> TRUE, verified |-> verified, err |-> e]

ReturnError(e, verified) ==
    [nextCalls |-> 0, own |-> TRUE, verified |-> verified, err |-> e]

\* ext.LoadBackendService(id)
LoadBackendService(id) == id = "known"

PermissionIds == {<<>>, <<"known">>, <<"unknown">>, <<"known", "unknown">>}

DoFilterInputs ==
    [disabled : BOOLEAN, skip : BOOLEAN, authorize : BOOLEAN,
     permissionValid : BOOLEAN, permissions : PermissionIds,
     verifyErr : {"nil", "StateError", "error"}, report : Reports,
     nextErr : BOOLEAN]

\* PermissionFilter.DoFilter(next)(ctx)
DoFilter(in) ==
    IF in.disabled \/ in.skip \/ ~in.authorize THEN ReturnNext(in.nextErr)
    ELSE IF Len(in.permissions) = 0 /\ ~in.permissionValid THEN ReturnNext(in.nextErr)
    ELSE IF \E i \in 1..Len(in.permissions) : ~LoadBackendService(in.permissions[i])
    THEN ReturnError([StatusCode |-> StatusServerError,
                      ErrorCode |-> ErrorCodeGatewayInternal,
                      Message |-> "PERMISSION:SERVICE:NOT_FOUND"], FALSE)
    ELSE IF in.verifyErr = "StateError" THEN ReturnError(VerifyStateError, TRUE)
    ELSE IF in.verifyErr = "error"
    THEN ReturnError([StatusCode |-> StatusForbidden,
                      ErrorCode |-> ErrorCodeGatewayInternal,
                      Message |-> "PERMISSION:VERIFY:ERROR"], TRUE)
    ELSE IF ~in.report.Success
    THEN ReturnError([StatusCode |-> EnsurePermissionStatusCode(in.report.StatusCode),
                      ErrorCode |-> EnsurePermissionErrorCode(in.report.ErrorCode),
                      Message |-> EnsurePermissionMessage(in.report.Message)], TRUE)
    ELSE [ReturnNext(in.nextErr) EXCEPT !.verified = TRUE]

ErrPermissionSubjectNotFound ==
    [StatusCode |-> StatusBadRequest, ErrorCode |-> ErrorCodeRequestInvalid,
     Message |-> "PERMISSION:SUBJECT_NOT_FOUND"]

ErrPermissionSubjectAccessDenied ==
    [StatusCode |-> StatusAccessDenied, ErrorCode |-> ErrorCodeRequestInvalid,
     Message |-> "PERMISSION:SUBJECT_ACCESS_DENIED"]

InvokeInputs ==
    [disabled : BOOLEAN, authorize : BOOLEAN, subject : BOOLEAN,
     loadErr : BOOLEAN, allowed : BOOLEAN, nextErr : BOOLEAN]

\* PermissionVerificationFilter.doVerification(ctx): NilError when allowed.
doVerification(in) ==
    IF ~in.subject THEN ErrPermissionSubjectNotFound
    ELSE IF in.loadErr
    THEN [StatusCode |-> StatusServerError, ErrorCode |-> "",
          Message |-> "PERMISSION:LOAD_ACCESS"]
    ELSE IF in.allowed THEN NilError
    ELSE ErrPermissionSubjectAccessDenied

\* PermissionVerificationFilter.Invoke(next)(ctx)
Invoke(in) ==
    IF in.disabled \/ ~in.authorize THEN ReturnNext(in.nextErr)
    ELSE IF doVerification(in) # NilError THEN ReturnError(doVerification(in), TRUE)
    ELSE [ReturnNext(in.nextErr) EXCEPT !.verified = TRUE]

\* ------------------------------- the exchange-backed permission provider
\* The provider PermissionVerificationFilter.Init builds from configuration
\* and the upstream call it makes (part_003:78-96, 137-153).

\* flux.ProtoDubbo, flux.ProtoHttp
ProtoDubbo == <<"D", "U", "B", "B", "O">>

ProtoHttp == <<"H", "T", "T", "P">>

\* The upstream configuration of the filter: protocol as written in the
\* configuration file, host, uri and method of the permission backend.
UpstreamConfigs ==
    [proto  : {<<"d", "u", "b", "b", "o">>, <<"H", "t", "t", "p">>, <<"g", "r", "p", "c">>},
     host   : {"perm-host"},
     uri    : {"com.X.PermService"},
     method : {"check", "GET"}]

\* What the backend answers: a text body, or a structured value (a map, as
\* a generic Dubbo service returns); success is what the answer reports.
SuccessTrue == <<"s", "u", "c", "c", "e", "s", "s", "=", "t", "r", "u", "e">>

SuccessFalse == <<"s", "u", "c", "c", "e", "s", "s", "=", "f", "a", "l", "s", "e">>

Denied == <<"d", "e", "n", "i", "e", "d">>

BackendResponses ==
    {[kind |-> "string", text |-> SuccessTrue,  success |-> TRUE],
     [kind |-> "string", text |-> SuccessFalse, success |-> FALSE],
     [kind |-> "string", text |-> Denied,       success |-> FALSE],
     [kind |-> "map",    text |-> <<>>,         success |-> TRUE],
     [kind |-> "map",    text |-> <<>>,         success |-> FALSE]}

\* cast.ToString(ret): a string is itself, a value of a type the cast does
\* not know (a map) is the empty string.
castToString(ret) == IF ret.kind = "string" THEN ret.text ELSE <<>>

\* strings.Contains(s, substr)
Contains(s, substr) ==
    \E i \in 0..(Len(s) - Len(substr)) : SubSeq(s, i + 1, i + Len(substr)) = substr

\* The exchange was not invoked.
NoExchange == <<>>

\* _loadPermByExchange(proto, host, method, uri, reqSubjectId, reqMethod,
\* reqPattern): invokes the exchange of proto; back is the backend's answer
\* [err, ret].
loadPermByExchange(proto, host, method, uri, reqSubjectId, reqMethod, reqPattern, back) ==
    [exchange |-> [proto |-> proto,
                   UpstreamHost |-> host, UpstreamMethod |-> method, UpstreamUri |-> uri,
                   Arguments |-> <<[name |-> "subjectId", value |-> reqSubjectId],
                                   [name |-> "method", value |-> reqMethod],
                                   [name |-> "pattern", value |-> reqPattern]>>],
     err      |-> back.err,
     allowed  |-> IF back.err THEN FALSE
                  ELSE Contains(castToString(back.ret), <<"s", "u", "c", "c", "e", "s", "s">>)]

\* The PermissionVerificationFunc of Init: inside the returned function the
\* parameter named method hides the configured upstream method, so both
\* method positions of the call receive the request's method.
provider(config, subjectId, method, pattern, back) ==
    CASE ToUpper(config.proto) = ProtoDubbo ->
            loadPermByExchange(ProtoDubbo, config.host, method, config.uri,
                               subjectId, method, pattern, back)
      [] ToUpper(config.proto) = ProtoHttp ->
            loadPermByExchange(ProtoHttp, config.host, method, config.uri,
                               subjectId, method, pattern, back)
      [] OTHER -> [exchange |-> NoExchange, err |-> TRUE, allowed |-> FALSE]

\* A request to an endpoint (HttpMethod, HttpPattern) carrying, or not, the
\* JWT subject attribute; the permission cache holds nothing for its key, so
\* GetOrLoad runs the loader.
ProviderInputs ==
    [disabled : BOOLEAN, authorize : BOOLEAN, subject : BOOLEAN, nextErr : BOOLEAN,
     config : UpstreamConfigs, subjectId : {"u1"}, HttpMethod : {"GET", "POST"},
     HttpPattern : {"/api/users"},
     back : [err : {FALSE}, ret : BackendResponses]
            \cup {[err |-> TRUE, ret |-> [kind |-> "string", text |-> <<>>, success |-> FALSE]]}]

\* The loader of doVerification: p.provider(subjectId, endpoint.HttpMethod,
\* endpoint.HttpPattern).
Load(pin) == provider(pin.config, pin.subjectId, pin.HttpMethod, pin.HttpPattern, pin.back)

\* The input of Invoke that the loader's result makes.
Loaded(pin) ==
    [disabled |-> pin.disabled, authorize |-> pin.authorize, subject |-> pin.subject,
     loadErr |-> Load(pin).err, allowed |-> Load(pin).allowed, nextErr |-> pin.nextErr]

\* The exchange invocation of the call, if the call reaches the loader.
Exchanged(pin) ==
    IF pin.disabled \/ ~pin.authorize \/ ~pin.subject THEN NoExchange
    ELSE Load(pin).exchange

\* A request goes through PermissionFilter.
CallDoFilter ==
    /\ filterCall = NoCall
    /\ \E in \in DoFilterInputs :
         filterCall' = [filter |-> "PermissionFilter", in |-> in, out |-> DoFilter(in)]
    /\ UNCHANGED <<serverVars, poolVars, dubboVars, debugVars, registryVars, recycleVars>>

\* A request goes through PermissionVerificationFilter.
CallInvoke ==
    /\ filterCall = NoCall
    /\ \E in \in InvokeInputs :
         filterCall' = [filter |-> "PermissionVerificationFilter", in |-> in,
                        out |-> Invoke(in)]
    /\ UNCHANGED <<serverVars, poolVars, dubboVars, debugVars, registryVars, recycleVars>>

\* A request goes through PermissionVerificationFilter with the provider
\* Init built from the upstream configuration.
CallInvokeWithProvider ==
    /\ filterCall = NoCall
    /\ \E pin \in ProviderInputs :
         LET out == Invoke(Loaded(pin))
         IN  filterCall' = [filter |-> "PermissionVerificationFilter", in |-> pin,
                            out |-> [nextCalls |-> out.nextCalls, own |-> out.own,
                                     verified |-> out.verified, err |-> out.err,
                                     exchange |-> Exchanged(pin)]]
    /\ UNCHANGED <<serverVars, poolVars, dubboVars, debugVars, registryVars, recycleVars>>

\* The call has returned to the chain; the next request may come.
FilterReturned ==
    /\ filterCall # NoCall
    /\ filterCall' = NoCall
    /\ UNCHANGED <<serverVars, poolVars, dubboVars, debugVars, registryVars, recycleVars>>

NextFilter ==
    \/ CallDoFilter
    \/ CallInvoke
    \/ CallInvokeWithProvider
    \/ FilterReturned

SpecFilter == InitCalls /\ [][NextFilter]_vars

\* --------------------------------------------------- the Dubbo exchange
\* Concurrent exchange.Invoke calls (exchange/dubbo/exchange.go), each with
\* its lookup of the interface's reference under ex.referenceMu.

\* ex.referenceMu.Lock() goes through when no one holds the lock.
CanLockShared == TRUE

CanLock == referenceMu = 0

\* The references constructed so far.
AllConstructed == UNION {constructed[i] : i \in Interfaces}

\* Invoke is called for a target endpoint; ex.lookup(target) starts.
InvokeCall(p) ==
    /\ invoker[p].pc = "idle"
    /\ \E i \in Interfaces :
         invoker' = [invoker EXCEPT ![p] = [IdleInvoker EXCEPT !.pc = "lock",
                                                               !.interfaceName = i]]
    /\ UNCHANGED <<referenceMap, referenceMu, constructed, returned>>
    /\ UNCHANGED <<serverVars, poolVars, filterVars, debugVars, registryVars, recycleVars>>

\* ex.referenceMu.Lock(); defer ex.referenceMu.Unlock()
LookupLock(p) ==
    /\ invoker[p].pc = "lock"
    /\ CanLock
    /\ referenceMu' = p
    /\ invoker' = [invoker EXCEPT ![p].pc = "check"]
    /\ UNCHANGED <<referenceMap, constructed, returned>>
    /\ UNCHANGED <<serverVars, poolVars, filterVars, debugVars, registryVars, recycleVars>>

\* if ref, ok := ex.referenceMap[interfaceName]; ok { return ref }
LookupCheck(p) ==
    /\ invoker[p].pc = "check"
    /\ LET i == invoker[p].interfaceName
       IN  IF i \in DOMAIN referenceMap
           THEN /\ invoker' = [invoker EXCEPT ![p].pc = "rpc",
                                              ![p].ref = referenceMap[i]]
                /\ returned' = [returned EXCEPT ![i] = @ \cup {referenceMap[i]}]
                /\ referenceMu' = 0
           ELSE /\ invoker' = [invoker EXCEPT ![p].pc = "store"]
                /\ UNCHANGED <<returned, referenceMu>>
    /\ UNCHANGED <<referenceMap, constructed>>
    /\ UNCHANGED <<serverVars, poolVars, filterVars, debugVars, registryVars, recycleVars>>

\* newRef := newReference(endpoint, ex.config);
\* ex.referenceMap[interfaceName] = newRef; return newRef
LookupStore(p) ==
    /\ invoker[p].pc = "store"
    /\ LET i == invoker[p].interfaceName
           newRef == Cardinality(AllConstructed) + 1
       IN  /\ referenceMap' = [x \in (DOMAIN referenceMap) \cup {i} |->
                                  IF x = i THEN newRef ELSE referenceMap[x]]
           /\ constructed' = [constructed EXCEPT ![i] = @ \cup {newRef}]
           /\ returned' = [returned EXCEPT ![i] = @ \cup {newRef}]
           /\ invoker' = [invoker EXCEPT ![p].pc = "rpc", ![p].ref = newRef]
    /\ referenceMu' = 0
    /\ UNCHANGED <<serverVars, poolVars, filterVars, debugVars, registryVars, recycleVars>>

\* reference.GetRPCService().Invoke(...) and Invoke returns.
InvokeReturn(p) ==
    /\ invoker[p].pc = "rpc"
    /\ invoker' = [invoker EXCEPT ![p] = IdleInvoker]
    /\ UNCHANGED <<referenceMap, referenceMu, constructed, returned>>
    /\ UNCHANGED <<serverVars, poolVars, filterVars, debugVars, registryVars, recycleVars>>

NextDubbo ==
    \/ \E p \in Invokers : InvokeCall(p)
    \/ \E p \in Invokers : LookupLock(p)
    \/ \E p \in Invokers : LookupCheck(p)
    \/ \E p \in Invokers : LookupStore(p)
    \/ \E p \in Invokers : InvokeReturn(p)

SpecDubbo == InitExchange /\ [][NextDubbo]_vars

\* -------------------------------------------------- startup and registry
\* FluxServer.Start (server.go:90-117), the endpoint listeners of
\* DefaultRegistry.WatchHttpEndpoints with the consumer of the channel it
\* returns, and DefaultRegistry.Shutdown.

\* if err := fs.dispatcher.Startup(); nil != err { return err }
AfterDispatcherStartup(failed) == IF failed THEN "failed" ELSE "watch"

\* if err := fs.dispatcher.WatchRegistry(eventCh); nil != err { return ... }
\* else { go fs.handleHttpRouteEvent(eventCh) }
AfterWatchRegistryIgnoringError(failed) == "loop"

AfterWatchRegistry(failed) == IF failed THEN "failed" ELSE "loop"

StartDispatcher ==
    /\ start.pc = "init"
    /\ \E failed \in BOOLEAN :
         start' = [start EXCEPT !.pc = AfterDispatcherStartup(failed),
                                !.dispatcherUp = ~failed,
                                !.err = failed]
    /\ UNCHANGED <<endpointEvents, listener, retrievers, regShut, nodeEvents>>
    /\ UNCHANGED <<serverVars, poolVars, filterVars, dubboVars, debugVars, recycleVars>>

\* WatchRegistry installs the listener on the retrievers in their order and
\* returns the first error of r.watch: the first n retrievers are watching.
StartWatch ==
    /\ start.pc = "watch"
    /\ \E n \in 0 .. Cardinality(Retrievers) :
         LET failed == n < Cardinality(Retrievers)
         IN  /\ retrievers' = [l \in Retrievers |->
                                  IF l <= n THEN "watching" ELSE retrievers[l]]
             /\ start' = [start EXCEPT !.pc = AfterWatchRegistry(failed),
                                       !.watched = ~failed,
                                       !.err = failed]
    /\ UNCHANGED <<endpointEvents, listener, regShut, nodeEvents>>
    /\ UNCHANGED <<serverVars, poolVars, filterVars, dubboVars, debugVars, recycleVars>>

\* go fs.handleHttpRouteEvent(eventCh)
StartLoop ==
    /\ start.pc = "loop"
    /\ start' = [start EXCEPT !.pc = "http", !.loop = TRUE]
    /\ UNCHANGED <<endpointEvents, listener, retrievers, regShut, nodeEvents>>
    /\ UNCHANGED <<serverVars, poolVars, filterVars, dubboVars, debugVars, recycleVars>>

\* fs.httpServer.StartTLS(...) or fs.httpServer.Start(address)
StartHttp ==
    /\ start.pc = "http"
    /\ start' = [start EXCEPT !.pc = "serving", !.http = TRUE]
    /\ UNCHANGED <<endpointEvents, listener, retrievers, regShut, nodeEvents>>
    /\ UNCHANGED <<serverVars, poolVars, filterVars, dubboVars, debugVars, recycleVars>>

\* What a listener invocation makes of its node event: NewEndpointEvent
\* decodes it (ok), rejects the payload (ok = false), or the invocation panics.
NodeEventKinds == {"ok", "malformed", "panic"}

\* The listener after an invocation that published nothing: the deferred
\* recover() ends the invocation only, the listener stays installed.
AfterFailureStopping(kind) == IF kind = "panic" THEN "stopped" ELSE "idle"

AfterFailure(kind) == "idle"

\* A watching retriever invokes the listener with a node event.
NodeEvent(l) ==
    /\ retrievers[l] = "watching"
    /\ listener[l].pc = "idle"
    /\ nodeEvents.count < MaxNodeEvents
    /\ \E kind \in NodeEventKinds :
         LET id == nodeEvents.count + 1
         IN  /\ listener' = [listener EXCEPT ![l] =
                    IF kind = "ok"
                    THEN [@ EXCEPT !.pc = "send", !.event = id]
                    ELSE [@ EXCEPT !.pc = AfterFailure(kind), !.failed = TRUE]]
             /\ nodeEvents' = [nodeEvents EXCEPT
                    !.count = id,
                    !.decoded = IF kind = "ok" THEN @ \cup {id} ELSE @]
    /\ UNCHANGED <<start, endpointEvents, retrievers, regShut>>
    /\ UNCHANGED <<serverVars, poolVars, filterVars, dubboVars, debugVars, recycleVars>>

\* r.endpointEvents <- evt on the open channel: the send completes when the
\* buffer has room, and blocks otherwise.
ChanSendDropping(buf, evt) ==
    IF Len(buf) < EndpointEventsCap
    THEN [done |-> TRUE, buf |-> Append(buf, evt)]
    ELSE [done |-> TRUE, buf |-> buf]

ChanSend(buf, evt) ==
    IF Len(buf) < EndpointEventsCap
    THEN [done |-> TRUE, buf |-> Append(buf, evt)]
    ELSE [done |-> FALSE, buf |-> buf]

\* The listener's send.  On the closed channel the send panics; the deferred
\* recover() logs the panic and the event is gone.
ListenerSend(l) ==
    /\ listener[l].pc = "send"
    /\ IF endpointEvents.closed
       THEN /\ listener' = [listener EXCEPT ![l] =
                               [@ EXCEPT !.pc = AfterFailure("panic"), !.event = 0,
                                         !.failed = TRUE]]
            /\ nodeEvents' = [nodeEvents EXCEPT !.closedSend = TRUE]
            /\ UNCHANGED endpointEvents
       ELSE LET sent == ChanSend(endpointEvents.buf, listener[l].event)
            IN  /\ sent.done
                /\ endpointEvents' = [endpointEvents EXCEPT !.buf = sent.buf]
                /\ nodeEvents' = [nodeEvents EXCEPT
                       !.published = IF sent.buf # endpointEvents.buf
                                     THEN Append(@, listener[l].event) ELSE @]
                /\ listener' = [listener EXCEPT ![l] =
                                   [@ EXCEPT !.pc = "idle", !.event = 0]]
    /\ UNCHANGED <<start, retrievers, regShut>>
    /\ UNCHANGED <<serverVars, poolVars, filterVars, dubboVars, debugVars, recycleVars>>

\* The consumer of the channel WatchHttpEndpoints returned receives the
\* oldest buffered event (a closed channel still yields what it buffers).
Consume ==
    /\ start.loop
    /\ endpointEvents.buf # <<>>
    /\ endpointEvents' = [endpointEvents EXCEPT !.buf = Tail(@)]
    /\ nodeEvents' = [nodeEvents EXCEPT
                         !.delivered = Append(@, Head(endpointEvents.buf))]
    /\ UNCHANGED <<start, listener, retrievers, regShut>>
    /\ UNCHANGED <<serverVars, poolVars, filterVars, dubboVars, debugVars, recycleVars>>

\* DefaultRegistry.Shutdown is called, once Start has started the HTTP server
\* or failed (run.go:39-46): close(r.endpointEvents).
ShutdownClose ==
    /\ regShut.pc = "idle"
    /\ start.pc \in {"serving", "failed"}
    /\ endpointEvents' = [endpointEvents EXCEPT !.closed = TRUE]
    /\ regShut' = [regShut EXCEPT !.pc = "retrievers"]
    /\ UNCHANGED <<start, listener, retrievers, nodeEvents>>
    /\ UNCHANGED <<serverVars, poolVars, filterVars, dubboVars, debugVars, recycleVars>>

\* The retriever the loop of Shutdown calls next.
NextRetriever == CHOOSE l \in Retrievers \ regShut.called :
                     \A k \in Retrievers \ regShut.called : l <= k

\* for _, retriever := range r.retrievers {
\*     if err := retriever.Shutdown(ctx); nil != err { return err } }
\* return nil
RetrieverShutdown ==
    /\ regShut.pc = "retrievers"
    /\ \E failed \in BOOLEAN :
         LET l == NextRetriever
             called == regShut.called \cup {l}
         IN  /\ retrievers' = [retrievers EXCEPT ![l] = IF failed THEN @ ELSE "down"]
             /\ regShut' = [pc |-> IF failed \/ called = Retrievers
                                   THEN "returned" ELSE "retrievers",
                            called |-> called,
                            err |-> failed]
    /\ UNCHANGED <<start, endpointEvents, listener, nodeEvents>>
    /\ UNCHANGED <<serverVars, poolVars, filterVars, dubboVars, debugVars, recycleVars>>

NextRegistry ==
    \/ StartDispatcher
    \/ StartWatch
    \/ StartLoop
    \/ StartHttp
    \/ \E l \in Retrievers : NodeEvent(l)
    \/ \E l \in Retrievers : ListenerSend(l)
    \/ Consume
    \/ ShutdownClose
    \/ RetrieverShutdown

SpecRegistry == InitStart /\ [][NextRegistry]_vars

\* The goroutines of the event loop and of the listeners are scheduled: a
\* started loop is entered, a buffered event is received, and a send that
\* can complete completes.
SpecRegistryLive ==
    /\ SpecRegistry
    /\ WF_vars(StartLoop)
    /\ WF_vars(Consume)
    /\ \A l \in Retrievers : WF_vars(ListenerSend(l))

TypeOKRegistry ==
    /\ Len(endpointEvents.buf) <= EndpointEventsCap
    /\ nodeEvents.count <= MaxNodeEvents
    /\ start.pc \in {"init", "watch", "loop", "http", "serving", "failed"}
    /\ regShut.pc \in {"idle", "retrievers", "returned"}
    /\ \A l \in Retrievers : listener[l].pc \in {"idle", "send"}

\* ------------------------------------------------------ context recycling
\* One context instance taken from the pool and put back again and again
\* (server.go:165-174): Reattach, the request's use of it, Release.

\* ctx := fs.contextPool.Get(); ctx.Reattach(...) for the next request.
RecycleReattach ==
    /\ recycle.pc = "pooled"
    /\ recycle.round < MaxRounds
    /\ recycle' = [recycle EXCEPT !.pc = "attached",
                                  !.round = @ + 1,
                                  !.ctx = Reattach(@, recycle.round + 1)]
    /\ UNCHANGED <<serverVars, poolVars, filterVars, dubboVars, debugVars, registryVars>>

\* The request uses its context: filters and exchanger set attributes
\* (SetAttribute), values (SetValue) and the context logger
\* (SetContextLogger), and write status, headers and body to the response
\* writer.
RecycleUse ==
    /\ recycle.pc = "attached"
    /\ \E keys \in SUBSET ValueKeys, logger \in BOOLEAN,
          hdr \in BOOLEAN, status \in {0, StatusOK, StatusBadGateway} :
         LET r == recycle.round
             c == recycle.ctx
         IN  recycle' = [recycle EXCEPT
                !.pc = "used",
                !.soiled = keys = ValueKeys /\ logger /\ hdr /\ status # 0,
                !.ctx = [c EXCEPT
                    !.attachments = @ \cup {r},
                    !.values = {<<k, r>> : k \in keys},
                    !.ctxLogger = IF logger THEN r ELSE @,
                    !.headers = IF hdr THEN @ \cup {r} ELSE @,
                    !.status = status,
                    !.body = IF status # 0 THEN {r} ELSE @]]
    /\ UNCHANGED <<serverVars, poolVars, filterVars, dubboVars, debugVars, registryVars>>

\* fs.release(ctx): c.Release(); fs.contextPool.Put(c).
RecycleRelease ==
    /\ recycle.pc \in {"attached", "used"}
    /\ recycle' = [recycle EXCEPT !.pc = "pooled", !.ctx = Release(@)]
    /\ UNCHANGED <<serverVars, poolVars, filterVars, dubboVars, debugVars, registryVars>>

NextRecycle ==
    \/ RecycleReattach
    \/ RecycleUse
    \/ RecycleRelease

SpecRecycle == InitContext /\ [][NextRecycle]_vars

\* ------------------------------------------------------ the debug features
\* The /debug/endpoints handler (server.go:267-277) runs on the goroutine of
\* its request and ranges over fs.endpointMvMap, which the event loop writes
\* from its own goroutine (server.go:246-254); neither takes a lock.

\* for k, v := range fs.endpointMvMap { ... }: the iteration starts.
DumpBegin ==
    /\ dump.pc = "idle"
    /\ dump' = [dump EXCEPT !.pc = "iterating"]
    /\ UNCHANGED <<serverVars, poolVars, filterVars, dubboVars, registryVars, recycleVars>>

\* The iteration ends and the handler writes the JSON blob.
DumpEnd ==
    /\ dump.pc = "iterating"
    /\ dump' = [dump EXCEPT !.pc = "idle"]
    /\ UNCHANGED <<serverVars, poolVars, filterVars, dubboVars, registryVars, recycleVars>>

NextDebug ==
    \/ Publish
    \/ handleHttpRouteEvent
    \/ DumpBegin
    \/ DumpEnd

SpecDebug == Init /\ [][NextDebug]_vars

\* ------------------------------------------------------------ definitions
\* What the slot <<route key, version>> of the routing table holds.
SlotContent(s) ==
    IF s[1] \in DOMAIN endpointMvMap /\ s[2] \in DOMAIN endpointMvMap[s[1]]
    THEN endpointMvMap[s[1]][s[2]]
    ELSE NilEndpoint

\* The route key has its HTTP handler registered.
Registered(key) == \E r \in DOMAIN httpRoutes : httpRoutes[r].mve = key

\* An accepted event for the slot is still waiting in the channel.
Pending(s) ==
    \E i \in 1..Len(eventCh) : MethodAllowed(eventCh[i]) /\ EventSlot(eventCh[i]) = s

\* The step is an iteration of the event loop, on the event Head(eventCh).
HandlesHead == eventCh # <<>> /\ eventCh' = Tail(eventCh)

\* ------------------------------------------------------------------ claims

\* The step is the handler's second lookup, the one of the default version.
SecondLookup == req.pc = "fallback" /\ req'.pc = "serve"

\* The second lookup's result is one whole endpoint of the default version:
\* the one the key held when the request arrived, or one an event stored
\* meanwhile.
WholeEndpoint ==
    /\ req'.endpoint.Version = defaultHttpVersionValue
    /\ \/ /\ defaultHttpVersionValue \in DOMAIN req.snap
          /\ req'.endpoint = req.snap[defaultHttpVersionValue]
       \/ req'.endpoint \in req.stored

\* C1: version fallback.  A request whose X-Version header names a version
\* that is not stored for its routing key, while the key holds a
\* default-version (v1) endpoint and no Removed event hits the key between
\* the handler's two lookups, resolves to the default-version endpoint: the
\* one the key held when the request arrived or one an event stored for v1
\* meanwhile.
C1_VersionFallback ==
    [][(/\ SecondLookup
        /\ req.version \notin DOMAIN req.snap
        /\ defaultHttpVersionValue \in DOMAIN req.snap
        /\ ~req.removed)
       => /\ req'.found
          /\ req'.fell
          /\ WholeEndpoint]_vars

\* A request with a version that its key did not hold was resolved to the v1
\* endpoint of the key by the second lookup.
C1_Witness ==
    /\ req.pc = "serve"
    /\ req.fell
    /\ req.found
    /\ req.endpoint.Version = defaultHttpVersionValue

C3_AddedIdempotent ==
    [][(HandlesHead /\ Head(eventCh).Type = "Added")
       => ApplyEvent([mvMap |-> endpointMvMap', routes |-> httpRoutes'], Head(eventCh))
             = [mvMap |-> endpointMvMap', routes |-> httpRoutes']]_vars

\* The loop has handled the same accepted Added event twice in a row.
C3_Witness ==
    /\ replayed
    /\ eventCh = <<>>
    /\ DOMAIN httpRoutes # {}

\* C4: event ordering.  The loop takes the events in channel order, so every
\* slot of a routing key (a key of an accepted method) with no event waiting
\* in the channel holds what the last event published for it says: the
\* event's endpoint after Added or Updated, nothing after Removed.
C4_LastEventWins ==
    /\ \A s \in DOMAIN expect : ~Pending(s) => SlotContent(s) = expect[s]
    /\ \A k \in DOMAIN endpointMvMap :
          \A v \in DOMAIN endpointMvMap[k] : <<k, v>> \in DOMAIN expect

\* Three events were handled; a slot's last event was Removed and another
\* slot's last event was Added or Updated.
C4_Witness ==
    /\ eventCh = <<>>
    /\ nsent >= 3
    /\ \E s \in DOMAIN expect : expect[s] = NilEndpoint /\ Registered(s[1])
    /\ \E s \in DOMAIN expect : expect[s] # NilEndpoint

\* C5: when neither the requested version nor the default version is stored
\* (the fallback lookup misses), the handler answers 404
\* ENDPOINT_VERSION_NOT_FOUND and neither parses the request form nor
\* dispatches to the filter chain and the exchanger.
C5_VersionNotFound ==
    [][/\ (/\ req.pc = "fallback"
           /\ req'.pc = "serve"
           /\ defaultHttpVersionValue \notin DOMAIN endpointMvMap[ReqKey])
          => ~req'.found
       /\ (req.pc = "serve" /\ req'.pc = "done" /\ ~req.found)
          => /\ req'.status = StatusNotFound
             /\ req'.message = "ENDPOINT_VERSION_NOT_FOUND"
             /\ ~req'.parsed
             /\ ~req'.dispatched]_vars

\* A request was answered with the version-not-found error.
C5_Witness ==
    /\ req.pc = "done"
    /\ ~req.found
    /\ req.status = StatusNotFound

C7_OneTimeRegistration ==
    [][/\ \A r \in DOMAIN httpRoutes' : httpRoutes'[r].adds <= 1
       /\ \A r1, r2 \in DOMAIN httpRoutes' :
             httpRoutes'[r1].mve = httpRoutes'[r2].mve => r1 = r2
       /\ \A r \in DOMAIN httpRoutes :
             r \in DOMAIN httpRoutes' /\ httpRoutes'[r] = httpRoutes[r]]_vars

\* Two Added events for two versions of one key were handled and its route
\* was added once.
C7_Witness ==
    /\ eventCh = <<>>
    /\ \E r \in DOMAIN httpRoutes :
          /\ httpRoutes[r].adds = 1
          /\ Cardinality(DOMAIN endpointMvMap[httpRoutes[r].mve]) = 2

\* C8: a routing key whose handler is registered keeps its entry and its
\* handler when Removed events delete its versions; a request to a route
\* whose key holds no version gets the version-not-found error; and an Added
\* event for an emptied key stores the endpoint in the same entry, where a
\* lookup of its version finds it, without a new registration.
C8_EmptiedKeyStaysRouted ==
    [][/\ \A k \in DOMAIN endpointMvMap : k \in DOMAIN endpointMvMap'
       /\ \A r \in DOMAIN httpRoutes :
             r \in DOMAIN httpRoutes' /\ httpRoutes'[r] = httpRoutes[r]
       /\ (/\ req.pc = "fallback"
           /\ req'.pc = "serve"
           /\ DOMAIN endpointMvMap[ReqKey] = {})
          => ~req'.found
       /\ (req.pc = "serve" /\ req'.pc = "done" /\ ~req.found)
          => (req'.status = StatusNotFound /\ req'.message = "ENDPOINT_VERSION_NOT_FOUND")
       /\ (/\ HandlesHead
           /\ Head(eventCh).Type = "Added"
           /\ MethodAllowed(Head(eventCh))
           /\ EventRouteKey(Head(eventCh)) \in DOMAIN endpointMvMap
           /\ DOMAIN endpointMvMap[EventRouteKey(Head(eventCh))] = {}
           /\ Registered(EventRouteKey(Head(eventCh))))
          => /\ httpRoutes' = httpRoutes
             /\ MveGet(endpointMvMap'[EventRouteKey(Head(eventCh))],
                       Head(eventCh).Endpoint.Version)
                   = [endpoint |-> NormalizedEndpoint(Head(eventCh)), found |-> TRUE]]_vars

\* A request through the handler of a key that was emptied and re-populated
\* found its endpoint.
C8_Witness ==
    /\ req.pc = "serve"
    /\ req.found
    /\ ReqKey \in revived

\* C9 as stated: an event of an unsupported method creates no routing-table
\* entry: every key of the routing table is the key of an accepted method.
C9_UnsupportedMethodNoEffect ==
    \A k \in DOMAIN endpointMvMap :
        \E e \in Events : MethodAllowed(e) /\ EventRouteKey(e) = k

\* C10 as stated: the routing key is (upper-case method, pattern): accepted
\* events for one pattern whose methods differ only in letter case go to one
\* MultiVersionEndpoint, and handlers are registered under the upper-case
\* method.
C10_NormalizedRoutingKey ==
    /\ \A r \in DOMAIN httpRoutes : r[1] = ToUpper(r[1])
    /\ \A e1, e2 \in Events :
          (/\ MethodAllowed(e1)
           /\ MethodAllowed(e2)
           /\ e1.HttpPattern = e2.HttpPattern
           /\ ToUpper(e1.HttpMethod) = ToUpper(e2.HttpMethod)
           /\ EventRouteKey(e1) \in DOMAIN endpointMvMap
           /\ EventRouteKey(e2) \in DOMAIN endpointMvMap)
          => EventRouteKey(e1) = EventRouteKey(e2)

\* The request holds a context: between its acquire and its release.
Holds(r) == handler[r].pc \in {"body", "release"}

\* C11: every context a route handler acquired is released (cleared) and put
\* back into the pool exactly once before the handler returns, on every
\* path: no put while the handler runs its body, and when the handler
\* returns its context has been cleared and put exactly once, and lies in
\* the pool.
C11_ReleasedExactlyOnce ==
    [][\A r \in Requests :
          /\ (handler'[r].pc \in {"body", "release"}) => handler'[r].puts = 0
          /\ (handler'[r].pc \in {"returned", "done"} /\ handler'[r].newCtx # 0)
             => handler'[r].puts = 1
          /\ (handler[r].pc # "returned" /\ handler'[r].pc = "returned"
              /\ handler'[r].newCtx # 0)
             => /\ contexts'[handler'[r].newCtx] = NewContext
                /\ handler'[r].newCtx \in contextPool']_vars

\* A handler that panicked in its body and a handler that returned the
\* version-not-found error have both returned with their contexts released.
C11_Witness ==
    \E r1, r2 \in Requests :
        /\ handler[r1].pc = "done" /\ handler[r1].panickedAt = "body"
        /\ handler[r1].puts = 1
        /\ handler[r2].pc = "done" /\ handler[r2].status = StatusNotFound
        /\ handler[r2].puts = 1

\* C12: context isolation.  Two requests that hold a context at the same
\* time hold different instances; the instance a request holds is not in the
\* pool, carries the request's id and only the attributes and response
\* headers set for this request.
C12_ContextIsolation ==
    /\ \A r1, r2 \in Requests :
          (r1 # r2 /\ Holds(r1) /\ Holds(r2)) => handler[r1].newCtx # handler[r2].newCtx
    /\ \A r \in Requests :
          Holds(r) => /\ handler[r].newCtx \notin contextPool
                      /\ contexts[handler[r].newCtx].requestId = r
                      /\ contexts[handler[r].newCtx].attachments \subseteq {r}
                      /\ contexts[handler[r].newCtx].headers \subseteq {r}

\* Two requests hold contexts at the same time, both with attributes and
\* response headers set by their dispatch.
C12_Witness ==
    \E r1, r2 \in Requests :
        /\ r1 # r2
        /\ handler[r1].pc = "release" /\ handler[r1].status = StatusOK
        /\ handler[r2].pc = "release" /\ handler[r2].status = StatusBadGateway
        /\ contexts[handler[r1].newCtx].headers = {r1}
        /\ contexts[handler[r2].newCtx].headers = {r2}

\* C13 as stated: nothing reads a request's context once the request has
\* released it: no request's error handling has read a context the request
\* had already put back.
C13_NoUseAfterRelease ==
    \A r \in Requests : ~handler[r].staleRead

\* C14 as stated: the error response written for a request that failed in
\* its handler carries the request id of that request.
C14_ErrorCarriesRequestId ==
    \A r \in Requests :
        (handler[r].pc = "done" /\ handler[r].err # "" /\ handler[r].routed # 0)
        => handler[r].resp.requestId = r

\* C15 as stated: a request whose handler panicked is answered with an error
\* response of status StatusServerError and code GATEWAY:INTERNAL.
C15_PanicBecomesServerError ==
    \A r \in Requests :
        (handler[r].pc = "done" /\ handler[r].panickedAt # "")
        => /\ handler[r].resp.status = StatusServerError
           /\ handler[r].resp.message = "GATEWAY:INTERNAL"

\* C16: a panic raised at any point inside a route handler never propagates
\* out of the handler: the handler returns to the web framework with a nil
\* error.
C16_PanicNeverEscapes ==
    \A r \in Requests :
        /\ ~handler[r].escaped
        /\ (handler[r].panickedAt # "" /\ handler[r].pc \in {"returned", "done"})
           => handler[r].err = ""

\* Handlers that panicked in the endpoint lookup and in the body have
\* returned.
C16_Witness ==
    \E r1, r2 \in Requests :
        /\ handler[r1].pc = "done" /\ handler[r1].panickedAt = "lookup"
        /\ handler[r2].pc = "done" /\ handler[r2].panickedAt = "body"

\* The last call went through PermissionFilter for an endpoint with
\* authorize=true and a permission service defined, and the verification
\* returned a report with success=false.
DeniedByReport ==
    /\ filterCall.filter = "PermissionFilter"
    /\ ~filterCall.in.disabled
    /\ ~filterCall.in.skip
    /\ filterCall.in.authorize
    /\ filterCall.in.permissionValid
    /\ \A i \in 1..Len(filterCall.in.permissions) :
          LoadBackendService(filterCall.in.permissions[i])
    /\ filterCall.in.verifyErr = "nil"
    /\ ~filterCall.in.report.Success

\* C17 as stated: a report with success=false makes PermissionFilter return
\* a StateError with status 403 and the report's error code
\* (PERMISSION:ACCESS_DENIED when empty), without invoking next.
C17_DenialIsForbidden ==
    DeniedByReport
    => /\ filterCall.out.err.StatusCode = StatusForbidden
       /\ filterCall.out.err.ErrorCode =
             (IF filterCall.in.report.ErrorCode = "" THEN ErrorCodePermissionDenied
              ELSE filterCall.in.report.ErrorCode)
       /\ filterCall.out.nextCalls = 0

\* C18: each permission filter invokes next at most once per request, and
\* when it returns an error it produced itself it has not invoked next; an
\* error it did not produce is the one next returned.
C18_NextAtMostOnce ==
    filterCall.filter # ""
    => /\ filterCall.out.nextCalls <= 1
       /\ filterCall.out.own => filterCall.out.nextCalls = 0
       /\ (~filterCall.out.own /\ filterCall.out.err # NilError)
          => (filterCall.out.nextCalls = 1 /\ filterCall.in.nextErr)

\* PermissionFilter denied a request after the verification, with an error
\* of its own and next not invoked.
C18_Witness ==
    /\ DeniedByReport
    /\ filterCall.out.own
    /\ filterCall.out.verified
    /\ filterCall.out.nextCalls = 0

\* C19: under any interleaving of concurrent Invoke calls at most one
\* ReferenceConfig is constructed per interface name, and every lookup for
\* the interface returns that instance: the one the cache holds.
C19_OneReferencePerInterface ==
    \A i \in Interfaces :
        /\ Cardinality(constructed[i]) <= 1
        /\ returned[i] \subseteq constructed[i]
        /\ Cardinality(returned[i]) <= 1
        /\ \A p \in Invokers :
              (invoker[p].pc = "rpc" /\ invoker[p].interfaceName = i)
              => (i \in DOMAIN referenceMap /\ invoker[p].ref = referenceMap[i])

\* Two concurrent Invoke calls for one interface, both past their lookup,
\* hold the same reference.
C19_Witness ==
    \E p1, p2 \in Invokers :
        /\ p1 # p2
        /\ invoker[p1].pc = "rpc" /\ invoker[p2].pc = "rpc"
        /\ invoker[p1].interfaceName = invoker[p2].interfaceName
        /\ invoker[p1].ref = invoker[p2].ref
        /\ invoker[p1].ref # 0

\* C20 as stated: every Shutdown call performs the dispatcher shutdown, after
\* the HTTP server shutdown has returned.
C20_DispatcherShutdownPerformed ==
    /\ shut.dispatcherDown => shut.httpDown
    /\ shut.pc = "returned" => shut.dispatcherDown

\* C21 as stated: DefaultRegistry.Shutdown closes the endpoint event channel
\* before it shuts down any retriever, and when it has returned it has shut
\* down every active retriever.
C21_ClosesThenShutsDownAll ==
    /\ regShut.called # {} => endpointEvents.closed
    /\ regShut.pc = "returned"
       => /\ regShut.called = Retrievers
          /\ \A l \in Retrievers : retrievers[l] = "down"

\* C22: startup order.  The HTTP server is started only after the dispatcher
\* startup succeeded, the registry watch was installed and the route event
\* loop was started; when the dispatcher startup or the registry watch
\* fails, Start returns the error with the event loop and the HTTP server
\* not started, and never starts them afterwards.
C22_StartupOrder ==
    /\ [](/\ start.http => (start.dispatcherUp /\ start.watched /\ start.loop)
          /\ start.loop => (start.dispatcherUp /\ start.watched)
          /\ start.watched => start.dispatcherUp
          /\ start.err <=> start.pc = "failed"
          /\ start.pc = "failed" => (~start.loop /\ ~start.http))
    /\ [][start.pc = "failed" => start' = start]_vars

\* Start has started the HTTP server, and the loop it started before has
\* received an event of a watching retriever.
C22_Witness ==
    /\ start.pc = "serving"
    /\ start.http
    /\ nodeEvents.delivered # <<>>

\* C23 as stated: an error response with status 400 and the message
\* REQUEST:FORM_PARSING is written for a request if and only if the form
\* parsing of the request failed, and a request whose form parsing failed
\* never reached the filter chain and the exchanger.
C23_FormParsingErrorIffParseFailed ==
    \A r \in Requests :
        handler[r].pc = "done"
        => /\ (/\ handler[r].resp.status = StatusBadRequest
               /\ handler[r].resp.message = "REQUEST:FORM_PARSING")
              <=> handler[r].parseFailed
           /\ handler[r].parseFailed => ~handler[r].chain

\* C28 as stated: an endpoint registered with the empty version occupies the
\* default version slot: a request whose first lookup missed (its X-Version
\* names a version the key does not hold), arriving while the key holds an
\* endpoint of the empty version and with no Removed event hitting the key
\* between the handler's two lookups, is resolved to an endpoint registered
\* with the empty version.  (An absent header reads as the empty version and
\* is found by the first lookup.)
C28_EmptyVersionIsDefault ==
    [][(/\ SecondLookup
        /\ "" \in DOMAIN req.snap
        /\ ~req.removed)
       => /\ req'.found
          /\ req'.endpoint.Version = ""]_vars

\* C29 as stated: at most one of the success response writer and the error
\* writer writes for a request.
C29_AtMostOneResponseWritten ==
    \A r \in Requests : Cardinality(handler[r].writers) <= 1

\* C24: recycling is clean.  Whatever earlier requests wrote to a context
\* instance, after the instance was released and reattached it is what a new
\* instance is after Reattach: request id, endpoint, attributes and request
\* reader of the new request, empty values, a reset response writer and no
\* context logger.
C24_RecyclingIsClean ==
    recycle.pc = "attached" => recycle.ctx = Reattach(NewContext, recycle.round)

\* The instance is attached to its second request after a first request
\* wrote every field of it.
C24_Witness ==
    /\ recycle.pc = "attached"
    /\ recycle.round = 2
    /\ recycle.soiled

\* Listener l runs an invocation that publishes nothing in this step: its
\* payload is malformed or the invocation panics before the send.
FailingInvocation(l) ==
    /\ listener[l].pc = "idle"
    /\ nodeEvents'.count = nodeEvents.count + 1
    /\ listener'[l] # listener[l]
    /\ nodeEvents'.decoded = nodeEvents.decoded

\* C25: listener failure isolation.  A listener invocation that receives a
\* malformed payload or panics publishes nothing and leaves the listener
\* installed and ready for the next node event; while the channel is open,
\* the send of a listener that failed before publishes its event as that
\* of any other listener.
C25_ListenerFailureIsolation ==
    [][\A l \in Retrievers :
          /\ FailingInvocation(l)
             => /\ endpointEvents' = endpointEvents
                /\ nodeEvents'.published = nodeEvents.published
                /\ listener'[l].pc = "idle"
                /\ retrievers'[l] = "watching"
          /\ (/\ listener[l].failed
              /\ listener[l].pc = "send"
              /\ listener'[l].pc # "send"
              /\ ~endpointEvents.closed)
             => /\ endpointEvents'.buf = Append(endpointEvents.buf, listener[l].event)
                /\ nodeEvents'.published = Append(nodeEvents.published, listener[l].event)
                /\ listener'[l].pc = "idle"]_vars

\* Only the first retriever is watching; its listener failed on the first
\* node event and on the third, and the second and the fourth were published
\* and delivered.
C25_Witness ==
    /\ retrievers[2] = "created"
    /\ listener[1].failed
    /\ nodeEvents.decoded = {2, 4}
    /\ nodeEvents.published = <<2, 4>>

\* The events of the list, as a set.
Range(seq) == {seq[i] : i \in DOMAIN seq}

\* The events decoded by a listener that has not sent them yet.
Unsent == {listener[l].event : l \in Retrievers} \ {0}

\* C26: backpressure without loss.  Unless a listener sent on the closed
\* channel, every decoded event is either still held by its listener or
\* was published exactly once; the consumer receives the published events
\* in the order of their publication; and once the registry watch is
\* installed, every decoded event is eventually delivered unless the
\* channel is closed.
C26_BackpressureWithoutLoss ==
    /\ [](/\ ~nodeEvents.closedSend
             => /\ nodeEvents.decoded = Range(nodeEvents.published) \cup Unsent
                /\ Cardinality(Range(nodeEvents.published)) = Len(nodeEvents.published)
                /\ Range(nodeEvents.published) \cap Unsent = {}
          /\ nodeEvents.published = nodeEvents.delivered \o endpointEvents.buf)
    /\ \A id \in 1 .. MaxNodeEvents :
          (id \in nodeEvents.decoded /\ start.watched)
          ~> (id \in Range(nodeEvents.delivered) \/ endpointEvents.closed)

\* The channel is full and open, a listener is blocked in its send, and the
\* consumer is running.
C26_Witness ==
    /\ Len(endpointEvents.buf) = EndpointEventsCap
    /\ ~endpointEvents.closed
    /\ start.loop
    /\ \E l \in Retrievers : listener[l].pc = "send"

\* C27 as stated: the event loop never inserts a routing key into
\* fs.endpointMvMap while the /debug/endpoints handler iterates the map.
C27_NoUnsynchronizedMapAccess == ~dump.raced

\* C30 as stated: no listener sends on the endpoint event channel after
\* DefaultRegistry.Shutdown has closed it.
C30_NoSendOnClosedChannel == ~nodeEvents.closedSend

\* The last call went through PermissionVerificationFilter with the provider
\* built from the upstream configuration.
ViaProvider ==
    /\ filterCall.filter = "PermissionVerificationFilter"
    /\ "config" \in DOMAIN filterCall.in

\* The call reached the backend of a known protocol for an endpoint with
\* authorize=true, and the backend answered without an invocation error.
BackendAnswered ==
    /\ ViaProvider
    /\ ~filterCall.in.disabled
    /\ filterCall.in.authorize
    /\ filterCall.in.subject
    /\ filterCall.out.exchange # NoExchange
    /\ ~filterCall.in.back.err

\* C31 as stated: for an endpoint with authorize=true, a backend response
\* reporting success=false leads to the access-denied error and next is not
\* invoked; access is granted only when the response reports success.
C31_GrantsOnlyOnSuccess ==
    (BackendAnswered /\ ~filterCall.in.back.ret.success)
    => /\ filterCall.out.err = ErrPermissionSubjectAccessDenied
       /\ filterCall.out.nextCalls = 0

\* The call ran the provider for a configured protocol the provider knows.
ProviderRan ==
    /\ ViaProvider
    /\ ~filterCall.in.disabled
    /\ filterCall.in.authorize
    /\ filterCall.in.subject
    /\ ToUpper(filterCall.in.config.proto) \in {ProtoDubbo, ProtoHttp}

\* C32 as stated: the provider built from configuration invokes the
\* exchanger of the configured protocol with the configured upstream host,
\* uri and upstream method, and passes the subject id, the request's HTTP
\* method and the request's pattern as the three call arguments.
C32_InvokesConfiguredUpstream ==
    ProviderRan
    => /\ filterCall.out.exchange # NoExchange
       /\ filterCall.out.exchange.proto = ToUpper(filterCall.in.config.proto)
       /\ filterCall.out.exchange.UpstreamHost = filterCall.in.config.host
       /\ filterCall.out.exchange.UpstreamUri = filterCall.in.config.uri
       /\ filterCall.out.exchange.UpstreamMethod = filterCall.in.config.method
       /\ filterCall.out.exchange.Arguments =
             <<[name |-> "subjectId", value |-> filterCall.in.subjectId],
               [name |-> "method", value |-> filterCall.in.HttpMethod],
               [name |-> "pattern", value |-> filterCall.in.HttpPattern]>>

====
